---- MODULE Spec2Model ----
(***************************************************************************)
(* Model of scripts/check_certificates.py: the parser of the checker's     *)
(* alert block (parse_html), the status and date normalisers, the          *)
(* per-document check (get_certificate_status) and the batch loop of main. *)
(*                                                                         *)
(* A Python str is a sequence of code points.  A code point is written as  *)
(* a one-character string, or as "U+XXXX" for the non-ASCII code points    *)
(* the code and the inputs use (U+FF1A full-width colon, U+1F7E2 green     *)
(* circle, U+1F534 red circle, U+2705 check mark, U+274C cross mark,       *)
(* U+26A0 U+FE0F warning sign).  Python's None index is NoIndex; positions *)
(* are 1-based, so the Python slice lines[a:b] is SubSeq(lines, a, b - 1). *)
(***************************************************************************)
EXTENDS Integers, Sequences, FiniteSets, TLC

VARIABLES
    pc,             \* position of the running call
    env,            \* the document under check: its files, the service's replies
    data,           \* parse_html's return value
    result,         \* get_certificate_status's return value
    arg,            \* argument of the pure function under call
    ret,            \* its return value
    certificates,   \* main: the rows parse_readme_table returned
    world,          \* main: company -> env
    idx,            \* main: position of the batch loop in certificates
    checked,        \* main: companies handed to get_certificate_status, in order
    updated_certs,  \* main: the list the loop builds
    readme_lines,   \* main: the lines parse_readme_table returned
    readme          \* main: README.md: whether it exists, and its lines

vars == <<pc, env, data, result, arg, ret, certificates, world, idx, checked,
          updated_certs, readme_lines, readme>>

----------------------------------------------------------------------------
(* String literals of the code, and the lines the inputs are built from.   *)

\* CertName:
S_CertName_c ==
    <<"C", "e", "r", "t", "N", "a", "m", "e", ":">>
\* CertName(U+FF1A)
S_CertName_fw ==
    <<"C", "e", "r", "t", "N", "a", "m", "e", "U+FF1A">>
\* MP Name:
S_MPName_c ==
    <<"M", "P", " ", "N", "a", "m", "e", ":">>
\* MP Name(U+FF1A)
S_MPName_fw ==
    <<"M", "P", " ", "N", "a", "m", "e", "U+FF1A">>
\* MP Name
S_MPName ==
    <<"M", "P", " ", "N", "a", "m", "e">>
\* Binding Certificates:
S_Binding_c ==
    <<"B", "i", "n", "d", "i", "n", "g", " ", "C", "e", "r", "t", "i", "f", "i", "c", "a", "t", "e", "s", ":">>
\* Binding Certificates(U+FF1A)
S_Binding_fw ==
    <<"B", "i", "n", "d", "i", "n", "g", " ", "C", "e", "r", "t", "i", "f", "i", "c", "a", "t", "e", "s", "U+FF1A">>
\* Certificate 1:
S_Cert1_c ==
    <<"C", "e", "r", "t", "i", "f", "i", "c", "a", "t", "e", " ", "1", ":">>
\* Certificate 1(U+FF1A)
S_Cert1_fw ==
    <<"C", "e", "r", "t", "i", "f", "i", "c", "a", "t", "e", " ", "1", "U+FF1A">>
\* Certificate 1
S_Cert1 ==
    <<"C", "e", "r", "t", "i", "f", "i", "c", "a", "t", "e", " ", "1">>
\* Certificate 2:
S_Cert2_c ==
    <<"C", "e", "r", "t", "i", "f", "i", "c", "a", "t", "e", " ", "2", ":">>
\* Certificate 2(U+FF1A)
S_Cert2_fw ==
    <<"C", "e", "r", "t", "i", "f", "i", "c", "a", "t", "e", " ", "2", "U+FF1A">>
\* Certificate 2
S_Cert2 ==
    <<"C", "e", "r", "t", "i", "f", "i", "c", "a", "t", "e", " ", "2">>
\* certname
K_certname ==
    <<"c", "e", "r", "t", "n", "a", "m", "e">>
\* effective date
K_effective_date ==
    <<"e", "f", "f", "e", "c", "t", "i", "v", "e", " ", "d", "a", "t", "e">>
\* expiration date
K_expiration_date ==
    <<"e", "x", "p", "i", "r", "a", "t", "i", "o", "n", " ", "d", "a", "t", "e">>
\* certificate status
K_certificate_status ==
    <<"c", "e", "r", "t", "i", "f", "i", "c", "a", "t", "e", " ", "s", "t", "a", "t", "u", "s">>
\* mp name
K_mp_name ==
    <<"m", "p", " ", "n", "a", "m", "e">>
\* certificate number
K_certificate_number ==
    <<"c", "e", "r", "t", "i", "f", "i", "c", "a", "t", "e", " ", "n", "u", "m", "b", "e", "r">>
\* revok
W_revok ==
    <<"r", "e", "v", "o", "k">>
\* revoked
W_revoked ==
    <<"r", "e", "v", "o", "k", "e", "d">>
\* expired
W_expired ==
    <<"e", "x", "p", "i", "r", "e", "d">>
\* expire
W_expire ==
    <<"e", "x", "p", "i", "r", "e">>
\* good
W_good ==
    <<"g", "o", "o", "d">>
\* valid
W_valid ==
    <<"v", "a", "l", "i", "d">>
\* active
W_active ==
    <<"a", "c", "t", "i", "v", "e">>
\* match
W_match ==
    <<"m", "a", "t", "c", "h">>
\* match with p12
W_match_with_p12 ==
    <<"m", "a", "t", "c", "h", " ", "w", "i", "t", "h", " ", "p", "1", "2">>
\* provisions all devices
W_provisions_all_devices ==
    <<"p", "r", "o", "v", "i", "s", "i", "o", "n", "s", " ", "a", "l", "l", " ", "d", "e", "v", "i", "c", "e", "s">>
\* Unknown
S_Unknown ==
    <<"U", "n", "k", "n", "o", "w", "n">>
\* Valid
S_Valid ==
    <<"V", "a", "l", "i", "d">>
\* Revoked
S_Revoked ==
    <<"R", "e", "v", "o", "k", "e", "d">>
\* Expired
S_Expired ==
    <<"E", "x", "p", "i", "r", "e", "d">>
\* CertName: A
L_CertName ==
    <<"C", "e", "r", "t", "N", "a", "m", "e", ":", " ", "A">>
\* MP Name: P
L_MPName ==
    <<"M", "P", " ", "N", "a", "m", "e", ":", " ", "P">>
\* Effective Date: 1
L_Eff1 ==
    <<"E", "f", "f", "e", "c", "t", "i", "v", "e", " ", "D", "a", "t", "e", ":", " ", "1">>
\* Effective Date(U+FF1A)2
L_Eff2 ==
    <<"E", "f", "f", "e", "c", "t", "i", "v", "e", " ", "D", "a", "t", "e", "U+FF1A", "2">>
\* Expiration Date: 3
L_Exp3 ==
    <<"E", "x", "p", "i", "r", "a", "t", "i", "o", "n", " ", "D", "a", "t", "e", ":", " ", "3">>
\* Certificate Status: (U+1F7E2)Good
L_StGood ==
    <<"C", "e", "r", "t", "i", "f", "i", "c", "a", "t", "e", " ", "S", "t", "a", "t", "u", "s", ":", " ", "U+1F7E2", "G", "o", "o", "d">>
\* Certificate Status: Revoked
L_StRevoked ==
    <<"C", "e", "r", "t", "i", "f", "i", "c", "a", "t", "e", " ", "S", "t", "a", "t", "u", "s", ":", " ", "R", "e", "v", "o", "k", "e", "d">>
\* Certificate Status: Pending
L_StPending ==
    <<"C", "e", "r", "t", "i", "f", "i", "c", "a", "t", "e", " ", "S", "t", "a", "t", "u", "s", ":", " ", "P", "e", "n", "d", "i", "n", "g">>
\* Binding Certificates:
L_Binding ==
    <<"B", "i", "n", "d", "i", "n", "g", " ", "C", "e", "r", "t", "i", "f", "i", "c", "a", "t", "e", "s", ":">>
\* Certificate 1:
L_Cert1 ==
    <<"C", "e", "r", "t", "i", "f", "i", "c", "a", "t", "e", " ", "1", ":">>
\* Certificate 2:
L_Cert2 ==
    <<"C", "e", "r", "t", "i", "f", "i", "c", "a", "t", "e", " ", "2", ":">>
\* Certificate 3:
L_Cert3 ==
    <<"C", "e", "r", "t", "i", "f", "i", "c", "a", "t", "e", " ", "3", ":">>
\* Certificate Number (Hex): 1A
L_NumHex ==
    <<"C", "e", "r", "t", "i", "f", "i", "c", "a", "t", "e", " ", "N", "u", "m", "b", "e", "r", " ", "(", "H", "e", "x", ")", ":", " ", "1", "A">>
\* Certificate Number (Decimal): 26
L_NumDec ==
    <<"C", "e", "r", "t", "i", "f", "i", "c", "a", "t", "e", " ", "N", "u", "m", "b", "e", "r", " ", "(", "D", "e", "c", "i", "m", "a", "l", ")", ":", " ", "2", "6">>
\* Devices Limit: 100
L_DevicesLimit ==
    <<"D", "e", "v", "i", "c", "e", "s", " ", "L", "i", "m", "i", "t", ":", " ", "1", "0", "0">>
\* CertName: Acme Corp
E_CertName ==
    <<"C", "e", "r", "t", "N", "a", "m", "e", ":", " ", "A", "c", "m", "e", " ", "C", "o", "r", "p">>
\* Effective Date: 2023-02-08 19:07:10 GMT+08:00
E_Effective ==
    <<"E", "f", "f", "e", "c", "t", "i", "v", "e", " ", "D", "a", "t", "e", ":", " ", "2", "0", "2", "3", "-", "0", "2", "-", "0", "8", " ", "1", "9", ":", "0", "7", ":", "1", "0", " ", "G", "M", "T", "+", "0", "8", ":", "0", "0">>
\* Expiration Date: 2026-02-07 19:07:09 GMT+08:00
E_Expiration ==
    <<"E", "x", "p", "i", "r", "a", "t", "i", "o", "n", " ", "D", "a", "t", "e", ":", " ", "2", "0", "2", "6", "-", "0", "2", "-", "0", "7", " ", "1", "9", ":", "0", "7", ":", "0", "9", " ", "G", "M", "T", "+", "0", "8", ":", "0", "0">>
\* MP Name: Acme Profile
E_MPName ==
    <<"M", "P", " ", "N", "a", "m", "e", ":", " ", "A", "c", "m", "e", " ", "P", "r", "o", "f", "i", "l", "e">>
\* Certificate Matching Status: (U+1F7E2)Match With P12
E_Matching ==
    <<"C", "e", "r", "t", "i", "f", "i", "c", "a", "t", "e", " ", "M", "a", "t", "c", "h", "i", "n", "g", " ", "S", "t", "a", "t", "u", "s", ":", " ", "U+1F7E2", "M", "a", "t", "c", "h", " ", "W", "i", "t", "h", " ", "P", "1", "2">>
\* (U+1F7E2)Good
V_GreenGood ==
    <<"U+1F7E2", "G", "o", "o", "d">>
\* (U+1F7E2)Match With P12
V_MatchWithP12 ==
    <<"U+1F7E2", "M", "a", "t", "c", "h", " ", "W", "i", "t", "h", " ", "P", "1", "2">>
\* 100
V_100 ==
    <<"1", "0", "0">>

----------------------------------------------------------------------------
(* Python values                                                           *)

\* Python's None, as a return value
None == [py |-> "None"]

\* find_index's "return None": no position (positions are 1-based)
NoIndex == 0

\* the empty dict {}
EmptyDict == [k \in {} |-> <<>>]

\* README.md when the directory holds none
NoReadme == [exists |-> FALSE, lines |-> <<>>]

\* d[k] = v
Put(d, k, v) == [x \in (DOMAIN d) \cup {k} |-> IF x = k THEN v ELSE d[x]]

\* d.get(k, default)
Get(d, k, default) == IF k \in DOMAIN d THEN d[k] ELSE default

\* the characters \s matches and str.strip() removes
Whitespace == {" ", "\t"}

\* the character class [:(U+FF1A)] of split_kv's pattern
Colons == {":", "U+FF1A"}

UpperCase ==
    <<"A", "B", "C", "D", "E", "F", "G", "H", "I", "J", "K", "L", "M",
      "N", "O", "P", "Q", "R", "S", "T", "U", "V", "W", "X", "Y", "Z">>

LowerCase ==
    <<"a", "b", "c", "d", "e", "f", "g", "h", "i", "j", "k", "l", "m",
      "n", "o", "p", "q", "r", "s", "t", "u", "v", "w", "x", "y", "z">>

Digits == <<"0", "1", "2", "3", "4", "5", "6", "7", "8", "9">>

Range(f) == {f[i] : i \in DOMAIN f}

\* str.lower() on one code point
lower_char(c) ==
    IF \E i \in 1..26 : UpperCase[i] = c
    THEN LowerCase[CHOOSE i \in 1..26 : UpperCase[i] = c]
    ELSE c

\* str.lower()
lower(s) == [i \in 1..Len(s) |-> lower_char(s[i])]

RECURSIVE lstrip(_)
\* str.lstrip(), also what a leading \s* consumes
lstrip(s) ==
    IF s # <<>> /\ Head(s) \in Whitespace THEN lstrip(Tail(s)) ELSE s

RECURSIVE rstrip(_)
\* str.rstrip()
rstrip(s) ==
    IF s # <<>> /\ s[Len(s)] \in Whitespace
    THEN rstrip(SubSeq(s, 1, Len(s) - 1))
    ELSE s

\* str.strip()
strip(s) == lstrip(rstrip(s))

\* str.startswith(p)
startswith(s, p) == Len(p) <= Len(s) /\ SubSeq(s, 1, Len(p)) = p

\* `sub in s`
contains(s, sub) ==
    \E i \in 1..(Len(s) - Len(sub) + 1) : SubSeq(s, i, i + Len(sub) - 1) = sub

\* position of the first code point of s that is in set, NoIndex when none is
first_in(s, set) ==
    IF \E i \in 1..Len(s) : s[i] \in set
    THEN CHOOSE i \in 1..Len(s) :
             s[i] \in set /\ \A j \in 1..(i - 1) : s[j] \notin set
    ELSE NoIndex

----------------------------------------------------------------------------
(* split_kv and clean_value                                                *)

\* mutant: only the ASCII colon separates
re_split_ascii_colon(line) ==
    LET i == first_in(line, {":"}) IN
    IF i = NoIndex
    THEN <<line>>
    ELSE <<SubSeq(line, 1, i - 1), lstrip(SubSeq(line, i + 1, Len(line)))>>

\* re.split(r'[:(U+FF1A)]\s*', line, maxsplit=1)
re_split_colon(line) ==
    LET i == first_in(line, Colons) IN
    IF i = NoIndex
    THEN <<line>>
    ELSE <<SubSeq(line, 1, i - 1), lstrip(SubSeq(line, i + 1, Len(line)))>>

split_kv(line) ==
    LET parts == re_split_colon(line) IN
    IF Len(parts) = 2
    THEN <<strip(parts[1]), strip(parts[2])>>
    ELSE <<strip(parts[1]), <<>>>>

RECURSIVE collapse_ws(_)
\* re.sub(r'\s+', ' ', raw)
collapse_ws(s) ==
    IF s = <<>> THEN <<>>
    ELSE IF Head(s) \in Whitespace THEN <<" ">> \o collapse_ws(lstrip(s))
    ELSE <<Head(s)>> \o collapse_ws(Tail(s))

clean_value(raw) == strip(collapse_ws(raw))

----------------------------------------------------------------------------
(* parse_html                                                              *)

\* find_index(prefixes, start, end) over lines; start and end are 1-based
\* and inclusive (Python's range(start - 1, end))
find_index(lines, prefixes, start, end) ==
    IF \E i \in start..end : \E p \in Range(prefixes) : startswith(lines[i], p)
    THEN CHOOSE i \in start..end :
             /\ \E p \in Range(prefixes) : startswith(lines[i], p)
             /\ \A j \in start..(i - 1) :
                    \A p \in Range(prefixes) : ~startswith(lines[j], p)
    ELSE NoIndex

\* body of the loop over the top-level certificate block
cert_line(d, ln) ==
    LET kv == split_kv(ln)
        v == clean_value(kv[2])
        lk == lower(kv[1])
    IN  IF startswith(lk, K_certname) THEN Put(d, "name", v)
        ELSE IF startswith(lk, K_effective_date) THEN Put(d, "effective", v)
        ELSE IF startswith(lk, K_expiration_date) THEN Put(d, "expiration", v)
        ELSE IF startswith(lk, K_certificate_status) THEN Put(d, "status", v)
        ELSE d

\* body of the loop over the mobileprovision block
mp_line(d, ln) ==
    LET kv == split_kv(ln)
        v == clean_value(kv[2])
        lk == lower(kv[1])
    IN  IF startswith(lk, K_mp_name) THEN Put(d, "name", v)
        ELSE IF startswith(lk, K_effective_date) THEN Put(d, "effective", v)
        ELSE IF startswith(lk, K_expiration_date) THEN Put(d, "expiration", v)
        ELSE d

\* body of the loop over the binding certificate 1 block
binding_line(d, ln) ==
    LET kv == split_kv(ln)
        v == clean_value(kv[2])
        lk == lower(kv[1])
    IN  IF startswith(lk, K_certificate_status) THEN Put(d, "status", v)
        ELSE IF startswith(lk, K_certificate_number)
             THEN IF "number" \notin DOMAIN d THEN Put(d, "number", v) ELSE d
        ELSE d

RECURSIVE cert_block(_, _)
\* for ln in lines[cert_idx:cert_block_end]
cert_block(d, lns) ==
    IF lns = <<>> THEN d ELSE cert_block(cert_line(d, Head(lns)), Tail(lns))

RECURSIVE mp_block(_, _)
\* for ln in lines[mp_idx:mp_block_end]
mp_block(d, lns) ==
    IF lns = <<>> THEN d ELSE mp_block(mp_line(d, Head(lns)), Tail(lns))

RECURSIVE binding_block(_, _)
\* for ln in lines[cert1_idx+1:end]
binding_block(d, lns) ==
    IF lns = <<>> THEN d
    ELSE binding_block(binding_line(d, Head(lns)), Tail(lns))

cert_idx_of(lines) ==
    find_index(lines, <<S_CertName_c, S_CertName_fw>>, 1, Len(lines))

mp_idx_of(lines) ==
    find_index(lines, <<S_MPName_c, S_MPName_fw, S_MPName>>, 1, Len(lines))

binding_idx_of(lines) ==
    LET mp_idx == mp_idx_of(lines) IN
    IF mp_idx # NoIndex
    THEN find_index(lines, <<S_Binding_c, S_Binding_fw>>, mp_idx, Len(lines))
    ELSE NoIndex

\* mutant: the certificate block runs to the end of the lines
cert_block_end_ignores_mp(lines) == Len(lines) + 1

\* the exclusive end of the top-level certificate block
cert_block_end_of(lines) ==
    LET mp_idx == mp_idx_of(lines)
        binding_idx == binding_idx_of(lines)
    IN  IF mp_idx # NoIndex THEN mp_idx
        ELSE IF binding_idx # NoIndex THEN binding_idx
        ELSE Len(lines) + 1

\* the exclusive end of the mobileprovision block
mp_block_end_of(lines) ==
    LET binding_idx == binding_idx_of(lines) IN
    IF binding_idx # NoIndex THEN binding_idx ELSE Len(lines) + 1

cert1_idx_of(lines) ==
    LET binding_idx == binding_idx_of(lines) IN
    IF binding_idx # NoIndex
    THEN find_index(lines, <<S_Cert1_c, S_Cert1_fw, S_Cert1>>,
                    binding_idx, Len(lines))
    ELSE NoIndex

cert2_idx_of(lines) ==
    LET cert1_idx == cert1_idx_of(lines) IN
    IF cert1_idx # NoIndex
    THEN find_index(lines, <<S_Cert2_c, S_Cert2_fw, S_Cert2>>,
                    cert1_idx + 1, Len(lines))
    ELSE NoIndex

\* mutant: the binding certificate 1 block runs to the end of the lines
binding_end_ignores_cert2(lines) == Len(lines) + 1

\* the exclusive end of the binding certificate 1 block
binding_end_of(lines) ==
    LET cert2_idx == cert2_idx_of(lines) IN
    IF cert2_idx # NoIndex THEN cert2_idx ELSE Len(lines) + 1

\* h is the response: whether it holds an alert div, and the lines
\* lines_from_alert_div returns for it
parse_html(h) ==
    IF ~h.has_alert
    THEN [error |-> "No certificate info found in response"]
    ELSE
    LET lines == h.lines
        cert_idx == cert_idx_of(lines)
        mp_idx == mp_idx_of(lines)
        cert1_idx == cert1_idx_of(lines)
    IN  [certificate |->
            IF cert_idx # NoIndex
            THEN cert_block(EmptyDict,
                     SubSeq(lines, cert_idx, cert_block_end_of(lines) - 1))
            ELSE EmptyDict,
         mobileprovision |->
            IF mp_idx # NoIndex
            THEN mp_block(EmptyDict,
                     SubSeq(lines, mp_idx, mp_block_end_of(lines) - 1))
            ELSE EmptyDict,
         binding_certificate_1 |->
            IF cert1_idx # NoIndex
            THEN binding_block(EmptyDict,
                     SubSeq(lines, cert1_idx + 1, binding_end_of(lines) - 1))
            ELSE EmptyDict]

----------------------------------------------------------------------------
(* strip_emoji_and_misc and normalise_status                               *)

\* ord(c) for the non-ASCII code points of the model; ASCII code points
\* all lie below the ranges that use it
code_point(c) ==
    CASE c = "U+FF1A" -> 65306
      [] c = "U+1F7E2" -> 128994
      [] c = "U+1F534" -> 128308
      [] OTHER -> 0

\* [\U0001F300-\U0001F6FF\U0001F900-\U0001F9FF\U00002600-\U00002BFF]
in_emoji_ranges(c) ==
    LET n == code_point(c) IN
    \/ (127744 <= n /\ n <= 128767)
    \/ (129280 <= n /\ n <= 129535)
    \/ (9728 <= n /\ n <= 11263)

\* \w
is_word_char(c) ==
    c \in Range(UpperCase) \cup Range(LowerCase) \cup Range(Digits) \cup {"_"}

\* [\w\s\-\._/():,], the class whose complement the second pass removes
is_kept_char(c) ==
    \/ is_word_char(c)
    \/ c \in Whitespace
    \/ c \in {"-", ".", "_", "/", "(", ")", ":", ","}

\* re.sub(<class>+, '', s): the code points of s for which keep holds
RECURSIVE remove_emoji(_)
remove_emoji(s) ==
    IF s = <<>> THEN <<>>
    ELSE IF in_emoji_ranges(Head(s)) THEN remove_emoji(Tail(s))
    ELSE <<Head(s)>> \o remove_emoji(Tail(s))

RECURSIVE remove_stray(_)
remove_stray(s) ==
    IF s = <<>> THEN <<>>
    ELSE IF is_kept_char(Head(s)) THEN <<Head(s)>> \o remove_stray(Tail(s))
    ELSE remove_stray(Tail(s))

strip_emoji_and_misc(s) ==
    IF s = <<>> THEN <<>> ELSE strip(remove_stray(remove_emoji(s)))

\* any(k in cleaned for k in ks)
any_in(cleaned, ks) == \E i \in DOMAIN ks : contains(cleaned, ks[i])

\* mutant: the cleaned text is not lower-cased
normalise_status_no_lower(raw_status) ==
    IF raw_status = <<>> THEN <<S_Unknown, <<>>>>
    ELSE
    LET cleaned == strip_emoji_and_misc(raw_status) IN
    IF any_in(cleaned, <<W_revok, W_revoked>>)
    THEN <<S_Revoked, raw_status>>
    ELSE IF any_in(cleaned, <<W_expired, W_expire>>)
    THEN <<S_Expired, raw_status>>
    ELSE IF any_in(cleaned, <<W_good, W_valid, W_active, W_match,
                              W_match_with_p12, W_provisions_all_devices>>)
    THEN <<S_Valid, raw_status>>
    ELSE <<S_Unknown, raw_status>>

\* mutant: the Expired keywords are tested before the Revoked ones
normalise_status_expired_first(raw_status) ==
    IF raw_status = <<>> THEN <<S_Unknown, <<>>>>
    ELSE
    LET cleaned == lower(strip_emoji_and_misc(raw_status)) IN
    IF any_in(cleaned, <<W_expired, W_expire>>)
    THEN <<S_Expired, raw_status>>
    ELSE IF any_in(cleaned, <<W_revok, W_revoked>>)
    THEN <<S_Revoked, raw_status>>
    ELSE IF any_in(cleaned, <<W_good, W_valid, W_active, W_match,
                              W_match_with_p12, W_provisions_all_devices>>)
    THEN <<S_Valid, raw_status>>
    ELSE <<S_Unknown, raw_status>>

\* returns the tuple (category, raw)
normalise_status(raw_status) ==
    IF raw_status = <<>> THEN <<S_Unknown, <<>>>>
    ELSE
    LET cleaned == lower(strip_emoji_and_misc(raw_status)) IN
    IF any_in(cleaned, <<W_revok, W_revoked>>)
    THEN <<S_Revoked, raw_status>>
    ELSE IF any_in(cleaned, <<W_expired, W_expire>>)
    THEN <<S_Expired, raw_status>>
    ELSE IF any_in(cleaned, <<W_good, W_valid, W_active, W_match,
                              W_match_with_p12, W_provisions_all_devices>>)
    THEN <<S_Valid, raw_status>>
    ELSE <<S_Unknown, raw_status>>

----------------------------------------------------------------------------
(* convert_to_dd_mm_yy                                                     *)

is_digit(c) == c \in Range(Digits)

is_alpha(c) == c \in Range(UpperCase) \cup Range(LowerCase)

digit_val(c) == (CHOOSE i \in 1..10 : Digits[i] = c) - 1

all_digits(t) == \A i \in 1..Len(t) : is_digit(t[i])

RECURSIVE int_of(_)
\* int(t) for a string of decimal digits
int_of(t) ==
    IF t = <<>> THEN 0
    ELSE 10 * int_of(SubSeq(t, 1, Len(t) - 1)) + digit_val(t[Len(t)])

\* "%02d" % n
two_digits(n) == <<Digits[((n \div 10) % 10) + 1], Digits[(n % 10) + 1]>>

\* a raised exception, and a returned value
Raise(exc) == [kind |-> "raise", exc |-> exc]

Return(v) == [kind |-> "return", value |-> v]

RECURSIVE remove_parens(_)
\* re.sub(r'\(.*?\)', '', s)
remove_parens(s) ==
    LET i == first_in(s, {"("}) IN
    IF i = NoIndex THEN s
    ELSE LET rest == SubSeq(s, i + 1, Len(s))
             j == first_in(rest, {")"})
         IN  IF j = NoIndex THEN s
             ELSE SubSeq(s, 1, i - 1)
                      \o remove_parens(SubSeq(rest, j + 1, Len(rest)))

RECURSIVE skip_class(_, _)
\* what <class>* consumes at the head of s
skip_class(s, set) ==
    IF s # <<>> /\ Head(s) \in set THEN skip_class(Tail(s), set) ELSE s

\* the text after a match of GMT[+-]?\d{1,2}[:0-9]* at the head of s, or
\* None when there is no match there
after_gmt(s) ==
    IF ~startswith(s, <<"G", "M", "T">>) THEN None
    ELSE LET a == SubSeq(s, 4, Len(s))
             b == IF a # <<>> /\ Head(a) \in {"+", "-"} THEN Tail(a) ELSE a
         IN  IF b # <<>> /\ is_digit(Head(b))
             THEN Return(skip_class(Tail(b), Range(Digits) \cup {":"}))
             ELSE None

RECURSIVE remove_gmt(_)
\* re.sub(r'GMT[+-]?\d{1,2}[:0-9]*', '', s)
remove_gmt(s) ==
    IF s = <<>> THEN <<>>
    ELSE LET m == after_gmt(s) IN
         IF m # None THEN remove_gmt(m.value)
         ELSE <<Head(s)>> \o remove_gmt(Tail(s))

\* the list date_formats, each format as its directives and literal
\* characters in order
date_formats ==
    << <<"%m", "/", "%d", "/", "%y", " ", "%H", ":", "%M">>,
       <<"%d", "/", "%m", "/", "%y", " ", "%H", ":", "%M">>,
       <<"%Y", "/", "%m", "/", "%d", " ", "%H", ":", "%M">>,
       <<"%Y", "-", "%m", "-", "%d", " ", "%H", ":", "%M", ":", "%S">>,
       <<"%d", " ", "%b", " ", "%Y", " ", "%H", ":", "%M">>,
       <<"%b", " ", "%d", ",", " ", "%Y", " ", "%H", ":", "%M">>,
       <<"%m", "/", "%d", "/", "%Y", " ", "%H", ":", "%M">>,
       <<"%d", "/", "%m", "/", "%Y", " ", "%H", ":", "%M">>,
       <<"%Y", "-", "%m", "-", "%d", " ", "%H", ":", "%M">> >>

Directives == {"%m", "%d", "%y", "%Y", "%H", "%M", "%S", "%b"}

MonthAbbr ==
    << <<"j", "a", "n">>, <<"f", "e", "b">>, <<"m", "a", "r">>,
       <<"a", "p", "r">>, <<"m", "a", "y">>, <<"j", "u", "n">>,
       <<"j", "u", "l">>, <<"a", "u", "g">>, <<"s", "e", "p">>,
       <<"o", "c", "t">>, <<"n", "o", "v">>, <<"d", "e", "c">> >>

\* the lengths of text a strptime directive can consume
directive_lengths(d) ==
    CASE d = "%Y" -> {4}
      [] d = "%y" -> {2}
      [] d = "%b" -> {3}
      [] OTHER -> {1, 2}

\* whether text t matches directive d's pattern in strptime's regex
directive_matches(d, t) ==
    CASE d = "%b" -> lower(t) \in Range(MonthAbbr)
      [] d = "%d" ->
            \/ all_digits(t) /\ 1 <= int_of(t) /\ int_of(t) <= 31
            \/ Len(t) = 2 /\ t[1] = " " /\ is_digit(t[2]) /\ t[2] # "0"
      [] d = "%m" -> all_digits(t) /\ 1 <= int_of(t) /\ int_of(t) <= 12
      [] d = "%H" -> all_digits(t) /\ int_of(t) <= 23
      [] d = "%M" -> all_digits(t) /\ int_of(t) <= 59
      [] d = "%S" -> all_digits(t) /\ int_of(t) <= 61
      [] OTHER -> all_digits(t)

\* the value strptime reads from text t for directive d
directive_value(d, t) ==
    CASE d = "%b" -> CHOOSE i \in 1..12 : MonthAbbr[i] = lower(t)
      [] d = "%y" -> IF int_of(t) <= 68 THEN 2000 + int_of(t)
                     ELSE 1900 + int_of(t)
      [] d = "%d" -> int_of(SubSeq(t, IF t[1] = " " THEN 2 ELSE 1, Len(t)))
      [] OTHER -> int_of(t)

\* the field of the parsed time a directive sets
directive_field(d) ==
    CASE d \in {"%y", "%Y"} -> "year"
      [] d \in {"%m", "%b"} -> "month"
      [] d = "%d" -> "day"
      [] d = "%H" -> "hour"
      [] d = "%M" -> "minute"
      [] OTHER -> "second"

RECURSIVE fmt_match(_, _, _, _, _)
\* the parsed fields of every way items[k..] matches the whole of s[i..];
\* white space in a format matches \s+, a letter matches in either case
fmt_match(items, k, s, i, f) ==
    IF k > Len(items)
    THEN IF i = Len(s) + 1 THEN {f} ELSE {}
    ELSE LET it == items[k] IN
         IF it \in Directives
         THEN UNION { fmt_match(items, k + 1, s, i + n,
                          [f EXCEPT ![directive_field(it)] =
                               directive_value(it, SubSeq(s, i, i + n - 1))]) :
                      n \in { m \in directive_lengths(it) :
                                /\ i + m - 1 <= Len(s)
                                /\ directive_matches(it, SubSeq(s, i, i + m - 1)) } }
         ELSE IF it \in Whitespace
         THEN UNION { fmt_match(items, k + 1, s, i + n, f) :
                      n \in { m \in 1..(Len(s) - i + 1) :
                                \A j \in i..(i + m - 1) : s[j] \in Whitespace } }
         ELSE IF i <= Len(s) /\ lower_char(s[i]) = lower_char(it)
         THEN fmt_match(items, k + 1, s, i + 1, f)
         ELSE {}

is_leap(y) == (y % 4 = 0 /\ y % 100 # 0) \/ y % 400 = 0

days_in_month(y, m) ==
    IF m = 2 THEN (IF is_leap(y) THEN 29 ELSE 28)
    ELSE IF m \in {4, 6, 9, 11} THEN 30 ELSE 31

\* whether datetime(...) accepts the fields
valid_datetime(f) ==
    /\ 1 <= f.year /\ f.year <= 9999
    /\ 1 <= f.month /\ f.month <= 12
    /\ 1 <= f.day /\ f.day <= days_in_month(f.year, f.month)
    /\ 0 <= f.hour /\ f.hour <= 23
    /\ 0 <= f.minute /\ f.minute <= 59
    /\ 0 <= f.second /\ f.second <= 59

\* datetime.strptime(ds, fmt): Return(fields) or Raise("ValueError")
strptime(ds, fmt) ==
    LET ms == fmt_match(fmt, 1, ds, 1,
                  [year |-> 1900, month |-> 1, day |-> 1,
                   hour |-> 0, minute |-> 0, second |-> 0])
    IN  IF ms = {} THEN Raise("ValueError")
        ELSE LET f == CHOOSE x \in ms : TRUE IN
             IF valid_datetime(f) THEN Return(f) ELSE Raise("ValueError")

\* dt.strftime("%d/%m/%y %H:%M")
strftime_dd_mm_yy(f) ==
    two_digits(f.day) \o <<"/">> \o two_digits(f.month) \o <<"/">>
        \o two_digits(f.year % 100) \o <<" ">>
        \o two_digits(f.hour) \o <<":">> \o two_digits(f.minute)

\* the parts of the fallback patterns: a literal character, \s+, a group
\* (\d{min,max}), a group ([A-Za-z]{min,})
Lit(c) == [cls |-> "lit", ch |-> c]

Ws == [cls |-> "ws"]

D(lo, hi) == [cls |-> "digit", min |-> lo, max |-> hi]

A(lo) == [cls |-> "alpha", min |-> lo]

\* the list date_patterns
date_patterns ==
    << <<D(1, 2), Lit("/"), D(1, 2), Lit("/"), D(2, 4), Ws, D(1, 2),
         Lit(":"), D(2, 2)>>,
       <<D(4, 4), Lit("-"), D(1, 2), Lit("-"), D(1, 2), Ws, D(1, 2),
         Lit(":"), D(2, 2)>>,
       <<D(1, 2), Ws, A(3), Ws, D(4, 4), Ws, D(1, 2), Lit(":"), D(2, 2)>> >>

\* the number of leading code points of s[i..] that satisfy the class
run_length(s, i, cls) ==
    LET ok(c) == CASE cls = "digit" -> is_digit(c)
                   [] cls = "alpha" -> is_alpha(c)
                   [] OTHER -> c \in Whitespace
        stops == { j \in i..Len(s) : ~ok(s[j]) }
    IN  IF stops = {} THEN Len(s) - i + 1
        ELSE (CHOOSE j \in stops : \A x \in stops : j <= x) - i

RECURSIVE re_match(_, _, _, _, _)
\* the groups of every way items[k..] matches a prefix of s[i..]
re_match(items, k, s, i, groups) ==
    IF k > Len(items) THEN {groups}
    ELSE LET it == items[k] IN
         IF it.cls = "lit"
         THEN IF i <= Len(s) /\ s[i] = it.ch
              THEN re_match(items, k + 1, s, i + 1, groups)
              ELSE {}
         ELSE LET run == run_length(s, i, it.cls)
                  lens == CASE it.cls = "digit" ->
                                 { n \in it.min..it.max : n <= run }
                            [] it.cls = "alpha" -> { n \in it.min..run : TRUE }
                            [] OTHER -> 1..run
              IN  UNION { re_match(items, k + 1, s, i + n,
                              IF it.cls = "ws" THEN groups
                              ELSE Append(groups, SubSeq(s, i, i + n - 1))) :
                          n \in lens }

\* re.search(pattern, s).groups(), or None
re_search(items, s) ==
    LET starts == { i \in 1..Len(s) : re_match(items, 1, s, i, <<>>) # {} } IN
    IF starts = {} THEN None
    ELSE LET i == CHOOSE x \in starts : \A y \in starts : x <= y IN
         Return(CHOOSE g \in re_match(items, 1, s, i, <<>>) : TRUE)

\* the body of the try block of the fallback, given match.groups():
\* Return(fields of dt) or Raise(...)
fallback_datetime(groups) ==
    LET year_first == Len(groups[1]) = 4
        day_first == int_of(groups[1]) > 12
        year_s == IF year_first THEN groups[1] ELSE groups[3]
        month_s == IF year_first THEN groups[2]
                   ELSE IF day_first THEN groups[2] ELSE groups[1]
        day_s == IF year_first THEN groups[3]
                 ELSE IF day_first THEN groups[1] ELSE groups[2]
        y == int_of(year_s)
        year == IF y < 100 THEN (IF y < 50 THEN 2000 + y ELSE 1900 + y) ELSE y
    IN  IF ~all_digits(month_s) \/ ~all_digits(day_s)
        THEN Raise("ValueError")
        ELSE LET f == [year |-> year, month |-> int_of(month_s),
                       day |-> int_of(day_s), hour |-> int_of(groups[4]),
                       minute |-> int_of(groups[5]), second |-> 0]
             IN  IF valid_datetime(f) THEN Return(f) ELSE Raise("ValueError")

RECURSIVE try_patterns_returns_ds(_, _, _)
\* mutant: the cleaned text is returned in place of the original string
try_patterns_returns_ds(ds, k, date_str) ==
    IF k > Len(date_patterns) THEN Return(ds)
    ELSE LET match == re_search(date_patterns[k], ds) IN
         IF match = None THEN try_patterns_returns_ds(ds, k + 1, date_str)
         ELSE LET r == fallback_datetime(match.value) IN
              IF r.kind = "return" THEN Return(strftime_dd_mm_yy(r.value))
              ELSE try_patterns_returns_ds(ds, k + 1, date_str)

RECURSIVE try_patterns(_, _, _)
\* the loop over date_patterns from pattern k on, and the final return
try_patterns(ds, k, date_str) ==
    IF k > Len(date_patterns) THEN Return(date_str)
    ELSE LET match == re_search(date_patterns[k], ds) IN
         IF match = None THEN try_patterns(ds, k + 1, date_str)
         ELSE LET r == fallback_datetime(match.value) IN
              IF r.kind = "return" THEN Return(strftime_dd_mm_yy(r.value))
              ELSE try_patterns(ds, k + 1, date_str)

RECURSIVE try_formats(_, _, _)
\* the loop over date_formats from format k on, then the fallback
try_formats(ds, k, date_str) ==
    IF k > Len(date_formats) THEN try_patterns(ds, 1, date_str)
    ELSE LET r == strptime(ds, date_formats[k]) IN
         IF r.kind = "return" THEN Return(strftime_dd_mm_yy(r.value))
         ELSE IF r.exc = "ValueError" THEN try_formats(ds, k + 1, date_str)
         ELSE r

\* the cleaned text ds the formats and patterns are tried on
cleaned_date(date_str) == strip(remove_gmt(strip(remove_parens(date_str))))

\* Return(value) or Raise(exception)
convert_to_dd_mm_yy(date_str) ==
    IF date_str = <<>> THEN Return(S_Unknown)
    ELSE try_formats(cleaned_date(date_str), 1, date_str)

----------------------------------------------------------------------------
(* get_certificate_status                                                  *)

\* mutant: the binding status is preferred to the top-level one
chosen_status_prefers_binding(d) ==
    LET raw_top == Get(Get(d, "certificate", EmptyDict), "status", <<>>)
        raw_binding ==
            Get(Get(d, "binding_certificate_1", EmptyDict), "status", <<>>)
        top == normalise_status(raw_top)
        bind == normalise_status(raw_binding)
    IN  IF bind[1] # S_Unknown THEN bind
        ELSE IF top[1] # S_Unknown THEN top
        ELSE <<S_Unknown,
               IF raw_top # <<>> THEN raw_top ELSE raw_binding>>

\* the (status, raw) chosen from parse_html's data
chosen_status(d) ==
    LET raw_top == Get(Get(d, "certificate", EmptyDict), "status", <<>>)
        raw_binding ==
            Get(Get(d, "binding_certificate_1", EmptyDict), "status", <<>>)
        top == normalise_status(raw_top)
        bind == normalise_status(raw_binding)
    IN  IF top[1] # S_Unknown THEN top
        ELSE IF bind[1] # S_Unknown THEN bind
        ELSE <<S_Unknown,
               IF raw_top # <<>> THEN raw_top ELSE raw_binding>>

\* data.get("mobileprovision", {}).get(field,
\*     data.get("certificate", {}).get(field, "Unknown"))
date_field(d, field) ==
    Get(Get(d, "mobileprovision", EmptyDict), field,
        Get(Get(d, "certificate", EmptyDict), field, S_Unknown))

\* convert_to_dd_mm_yy(v) if v and v != "Unknown" else "Unknown"
converted(v) ==
    IF v # <<>> /\ v # S_Unknown THEN convert_to_dd_mm_yy(v)
    ELSE Return(S_Unknown)

\* the body of the try block; e holds what the service answers
check_body(cert_name, e) ==
    IF e.token = "raise" THEN Raise("RequestException")
    ELSE IF e.submit = "raise" THEN Raise("RequestException")
    ELSE LET d == parse_html(e.response)
             chosen == chosen_status(d)
             effective == converted(date_field(d, "effective"))
             expiration == converted(date_field(d, "expiration"))
         IN  IF effective.kind = "raise" THEN effective
             ELSE IF expiration.kind = "raise" THEN expiration
             ELSE Return([status |-> chosen[1],
                          effective |-> effective.value,
                          expiration |-> expiration.value,
                          company |-> cert_name,
                          raw_status |-> chosen[2]])

\* mutant: no try/except around the check, an exception leaves the call
get_certificate_status_no_except(cert_name, e) ==
    IF ~e.p12_files \/ ~e.mp_files THEN Return(None)
    ELSE check_body(cert_name, e)

\* Return(None), Return(result dict) or Raise(exception); e.p12_files and
\* e.mp_files tell whether the directory holds the two files
get_certificate_status(cert_name, e) ==
    IF ~e.p12_files \/ ~e.mp_files THEN Return(None)
    ELSE LET r == check_body(cert_name, e) IN
         IF r.kind = "raise" THEN Return(None) ELSE r

----------------------------------------------------------------------------
(* The check of one document: parse_html on the service's response, then   *)
(* get_certificate_status.                                                 *)

\* longest response of free lines
MaxLines == 4

\* longest run of free lines after the Binding Certificates line
MaxEntryLines == 4

SeqsUpTo(S, n) == UNION { [1..k -> S] : k \in 0..n }

\* the lines a response of free lines is made of
DocAlphabet == {L_CertName, L_MPName, L_Eff1, L_Eff2, L_Exp3, L_Binding}

\* the lines that follow <<MP Name, Binding Certificates>> freely
BindingAlphabet ==
    {L_Cert1, L_Cert2, L_Cert3, L_StGood, L_StRevoked, L_NumHex,
     L_DevicesLimit}

StatusLines == {L_StGood, L_StRevoked, L_StPending}

\* responses with a top-level status, a binding status, or both
StatusDocs ==
    { <<L_CertName, a>> : a \in StatusLines }
        \cup { <<L_CertName, a, L_MPName, L_Binding, L_Cert1, b>> :
                 a \in StatusLines, b \in StatusLines }

\* responses whose entry carries both certificate numbers
NumberDocs ==
    { <<L_MPName, L_Binding, L_Cert1, L_NumHex, L_NumDec>>,
      <<L_MPName, L_Binding, L_Cert1, L_NumDec, L_NumHex>> }

\* the lines of the end-to-end example
E2ELines ==
    <<E_CertName, E_Effective, E_Expiration, L_StGood, E_MPName, E_Effective,
      E_Expiration, L_Binding, L_Cert1, L_StGood, E_Matching, L_DevicesLimit>>

ResponseLines ==
    SeqsUpTo(DocAlphabet, MaxLines)
        \cup { <<L_MPName, L_Binding>> \o t :
                 t \in SeqsUpTo(BindingAlphabet, MaxEntryLines) }
        \cup StatusDocs \cup NumberDocs \cup {E2ELines}

Responses ==
    { [has_alert |-> TRUE, lines |-> ls] : ls \in ResponseLines }
        \cup { [has_alert |-> FALSE, lines |-> <<>>] }

\* the documents: a served response, or one of the failures before it
Envs ==
    { [p12_files |-> TRUE, mp_files |-> TRUE, token |-> "ok",
       submit |-> "ok", response |-> r] : r \in Responses }
    \cup
    { [p12_files |-> f[1], mp_files |-> f[2], token |-> f[3],
       submit |-> f[4],
       response |-> [has_alert |-> TRUE, lines |-> E2ELines]] :
      f \in { <<FALSE, TRUE, "ok", "ok">>, <<TRUE, FALSE, "ok", "ok">>,
              <<TRUE, TRUE, "raise", "ok">>, <<TRUE, TRUE, "ok", "raise">> } }

Company == "A"

Init ==
    /\ pc = "start"
    /\ env \in Envs
    /\ data = None
    /\ result = None
    /\ arg = None
    /\ ret = None
    /\ certificates = <<>>
    /\ world = <<>>
    /\ idx = 0
    /\ checked = <<>>
    /\ updated_certs = <<>>
    /\ readme_lines = <<>>
    /\ readme = NoReadme

\* data = parse_html(html)
ParseHtml ==
    /\ pc = "start"
    /\ data' = parse_html(env.response)
    /\ pc' = "parsed"
    /\ UNCHANGED <<env, result, arg, ret, certificates, world, idx, checked,
                   updated_certs, readme_lines, readme>>

\* result = get_certificate_status(company)
GetCertificateStatus ==
    /\ pc = "parsed"
    /\ result' = get_certificate_status(Company, env).value
    /\ pc' = "done"
    /\ UNCHANGED <<env, data, arg, ret, certificates, world, idx, checked,
                   updated_certs, readme_lines, readme>>

Next == ParseHtml \/ GetCertificateStatus

Spec == Init /\ [][Next]_vars

----------------------------------------------------------------------------
(* Claims about parse_html and get_certificate_status (specification Spec) *)

\* the lines of the response under check
Lines == env.response.lines

\* a response with an alert block has been parsed
Parsed == pc # "start" /\ env.response.has_alert

\* the key a line carries (lower-cased) and the value it carries
KeyOf(ln) == lower(split_kv(ln)[1])

ValueOf(ln) == clean_value(split_kv(ln)[2])

Min(S) == CHOOSE x \in S : \A y \in S : x <= y

Max(S) == CHOOSE x \in S : \A y \in S : x >= y

\* first position >= from of a line that starts with a prefix in ps, or 0
FirstFrom(ps, from) ==
    LET hits == { i \in from..Len(Lines) :
                    \E q \in ps : startswith(Lines[i], q) }
    IN  IF hits = {} THEN 0 ELSE Min(hits)

CertStart == FirstFrom({S_CertName_c, S_CertName_fw}, 1)

MPStart == FirstFrom({S_MPName}, 1)

BindStart ==
    IF MPStart = 0 THEN 0 ELSE FirstFrom({S_Binding_c, S_Binding_fw}, MPStart)

Entry1 == IF BindStart = 0 THEN 0 ELSE FirstFrom({S_Cert1}, BindStart)

Entry2 == IF Entry1 = 0 THEN 0 ELSE FirstFrom({S_Cert2}, Entry1 + 1)

\* the positions of the three sections the parser reads
CertSection ==
    IF CertStart = 0 THEN {}
    ELSE CertStart..(IF MPStart # 0 THEN MPStart - 1 ELSE Len(Lines))

MPSection ==
    IF MPStart = 0 THEN {}
    ELSE MPStart..(IF BindStart # 0 THEN BindStart - 1 ELSE Len(Lines))

Entry1Section ==
    IF Entry1 = 0 THEN {}
    ELSE (Entry1 + 1)..(IF Entry2 # 0 THEN Entry2 - 1 ELSE Len(Lines))

\* the positions in sec of the lines whose key starts with k
Claimants(sec, k) == { i \in sec : startswith(KeyOf(Lines[i]), k) }

\* field of record d holds the value of the first line of sec that claims k
FirstWriterWins(d, field, sec, k) ==
    Claimants(sec, k) # {} =>
        /\ field \in DOMAIN d
        /\ d[field] = ValueOf(Lines[Min(Claimants(sec, k))])

\* C1: once a field has been set from a line, no later line with the same
\* key changes it: every field ends with the value of the first line of its
\* section that claims its key (first-writer-wins).
C1_FirstWriterWins ==
    Parsed =>
        /\ FirstWriterWins(data.certificate, "name", CertSection, K_certname)
        /\ FirstWriterWins(data.certificate, "effective", CertSection,
                           K_effective_date)
        /\ FirstWriterWins(data.certificate, "expiration", CertSection,
                           K_expiration_date)
        /\ FirstWriterWins(data.certificate, "status", CertSection,
                           K_certificate_status)
        /\ FirstWriterWins(data.mobileprovision, "name", MPSection, K_mp_name)
        /\ FirstWriterWins(data.mobileprovision, "effective", MPSection,
                           K_effective_date)
        /\ FirstWriterWins(data.mobileprovision, "expiration", MPSection,
                           K_expiration_date)
        /\ FirstWriterWins(data.binding_certificate_1, "status",
                           Entry1Section, K_certificate_status)
        /\ FirstWriterWins(data.binding_certificate_1, "number",
                           Entry1Section, K_certificate_number)

\* the positions of the date lines with key k before / from the first
\* MP Name line
DatesBeforeMP(k) ==
    { i \in 1..Len(Lines) :
        /\ startswith(KeyOf(Lines[i]), k)
        /\ (MPStart = 0 \/ i < MPStart) }

DatesAfterMP(k) ==
    { i \in 1..Len(Lines) :
        /\ startswith(KeyOf(Lines[i]), k)
        /\ MPStart # 0 /\ i > MPStart }

\* record d got its date field from a line of from, and has it whenever
\* from is not empty
AttributedExactly(d, field, from) ==
    /\ from # {} => field \in DOMAIN d
    /\ field \in DOMAIN d => \E i \in from : d[field] = ValueOf(Lines[i])

\* C2 as claimed: a date line before the first MP Name line goes to the
\* certificate record and one after it to the mobileprovision record,
\* whether or not and wherever a CertName line is present.
C2_DatesSplitAtMPName ==
    Parsed =>
        /\ AttributedExactly(data.certificate, "effective",
                             DatesBeforeMP(K_effective_date))
        /\ AttributedExactly(data.certificate, "expiration",
                             DatesBeforeMP(K_expiration_date))
        /\ AttributedExactly(data.mobileprovision, "effective",
                             DatesAfterMP(K_effective_date))
        /\ AttributedExactly(data.mobileprovision, "expiration",
                             DatesAfterMP(K_expiration_date))

\* C2 as amended: a date line goes to the certificate record exactly when
\* it lies from the first CertName line up to the first MP Name line, and to
\* the mobileprovision record exactly when it lies from the first MP Name line
\* up to the first Binding Certificates line after it; never to the other
\* side's record.
C2_DatesBySection ==
    Parsed =>
        /\ AttributedExactly(data.certificate, "effective",
                             Claimants(CertSection, K_effective_date))
        /\ AttributedExactly(data.certificate, "expiration",
                             Claimants(CertSection, K_expiration_date))
        /\ AttributedExactly(data.mobileprovision, "effective",
                             Claimants(MPSection, K_effective_date))
        /\ AttributedExactly(data.mobileprovision, "expiration",
                             Claimants(MPSection, K_expiration_date))
        /\ \A i \in CertSection : MPStart = 0 \/ i < MPStart
        /\ \A i \in MPSection : i >= MPStart

\* C2 witness: both records took a date, the certificate from a line before
\* the MP Name line and the profile from a different one after it
C2_Witness ==
    /\ Parsed
    /\ "effective" \in DOMAIN data.certificate
    /\ "effective" \in DOMAIN data.mobileprovision
    /\ data.certificate.effective # data.mobileprovision.effective

\* Certificate 
S_Certificate_sp ==
    <<"C", "e", "r", "t", "i", "f", "i", "c", "a", "t", "e", " ">>

\* certificate matching status
K_certificate_matching_status ==
    <<"c", "e", "r", "t", "i", "f", "i", "c", "a", "t", "e", " ", "m", "a", "t", "c", "h", "i", "n", "g", " ", "s", "t", "a", "t", "u", "s">>

\* permission status
K_permission_status ==
    <<"p", "e", "r", "m", "i", "s", "s", "i", "o", "n", " ", "s", "t", "a", "t", "u", "s">>

\* devices limit
K_devices_limit ==
    <<"d", "e", "v", "i", "c", "e", "s", " ", "l", "i", "m", "i", "t">>

\* Acme Profile
V_AcmeProfile ==
    <<"A", "c", "m", "e", " ", "P", "r", "o", "f", "i", "l", "e">>

\* a `Certificate <n>` line, n a positive integer
IsEntryLine(ln) ==
    LET k == split_kv(ln)[1]
        n == SubSeq(k, Len(S_Certificate_sp) + 1, Len(k))
    IN  /\ startswith(k, S_Certificate_sp)
        /\ n # <<>> /\ all_digits(n) /\ int_of(n) > 0

\* a line with a terminator key
IsTerminator(ln) ==
    \/ startswith(KeyOf(ln), K_certificate_matching_status)
    \/ startswith(KeyOf(ln), K_permission_status)
    \/ startswith(KeyOf(ln), K_devices_limit)

\* the positions of the entry lines of the Binding Certificates section
EntryLines ==
    IF BindStart = 0 THEN {}
    ELSE { i \in (BindStart + 1)..Len(Lines) : IsEntryLine(Lines[i]) }

\* the number n of the entry line at position i
EntryNumber(i) ==
    LET k == split_kv(Lines[i])[1] IN
    int_of(SubSeq(k, Len(S_Certificate_sp) + 1, Len(k)))

\* the entry lines are numbered 1, 2, ... in order
WellNumbered ==
    \A i \in EntryLines :
        EntryNumber(i) = Cardinality({ j \in EntryLines : j <= i })

\* no two entry lines carry the same number
DistinctEntries ==
    \A i, j \in EntryLines : i # j => EntryNumber(i) # EntryNumber(j)

\* the keys of data that hold binding-certificate records
BindingKeys(d) == (DOMAIN d) \ {"certificate", "mobileprovision", "error"}

Entry1Bounded ==
    IF Entry1 = 0 THEN {}
    ELSE LET stops == { i \in (Entry1 + 1)..Len(Lines) :
                          IsEntryLine(Lines[i]) \/ IsTerminator(Lines[i]) }
         IN  (Entry1 + 1)..(IF stops = {} THEN Len(Lines) ELSE Min(stops) - 1)

\* C6: the status and number of a binding-certificate entry come only from
\* lines between its `Certificate <n>` line and the next `Certificate <m>`
\* line or terminator line; a line after that boundary never changes it.
C6_EntryBounded ==
    (Parsed /\ DistinctEntries) =>
        /\ "status" \in DOMAIN data.binding_certificate_1 =>
              \E i \in Claimants(Entry1Bounded, K_certificate_status) :
                  data.binding_certificate_1.status = ValueOf(Lines[i])
        /\ "number" \in DOMAIN data.binding_certificate_1 =>
              \E i \in Claimants(Entry1Bounded, K_certificate_number) :
                  data.binding_certificate_1.number = ValueOf(Lines[i])

\* the end-to-end example has been checked
E2EDone ==
    /\ pc = "done"
    /\ result # None
    /\ env.response.has_alert
    /\ Lines = E2ELines

\* the normalised category of a record's status
CategoryOf(d) == normalise_status(Get(d, "status", <<>>))[1]

TopCategory == CategoryOf(Get(data, "certificate", EmptyDict))

BindingCategory == CategoryOf(Get(data, "binding_certificate_1", EmptyDict))

\* C10: the reported status is the top-level status when that is not
\* Unknown, else the status of binding certificate 1 when that is not
\* Unknown, else Unknown; a binding status never overrides a top-level one.
C10_PrefersTopLevel ==
    (pc = "done" /\ result # None) =>
        /\ TopCategory # S_Unknown => result.status = TopCategory
        /\ (TopCategory = S_Unknown /\ BindingCategory # S_Unknown) =>
               result.status = BindingCategory
        /\ result.status = S_Unknown <=>
               (TopCategory = S_Unknown /\ BindingCategory = S_Unknown)

\* C10 witness: a top-level status that is present but Unknown, and the
\* binding status reported in its place
C10_Witness ==
    /\ pc = "done" /\ result # None
    /\ "status" \in DOMAIN Get(data, "certificate", EmptyDict)
    /\ TopCategory = S_Unknown
    /\ BindingCategory = S_Valid
    /\ result.status = S_Valid

----------------------------------------------------------------------------
(* split_kv on its own (specification SpecKV)                              *)

\* longest line given to split_kv
MaxKvLen == 5

KvAlphabet == {"a", " ", ":", "U+FF1A"}

\* CertName: Acme
X_CertNameAcme ==
    <<"C", "e", "r", "t", "N", "a", "m", "e", ":", " ", "A", "c", "m", "e">>

\* CertName(U+FF1A)Acme
X_CertNameAcmeFw ==
    <<"C", "e", "r", "t", "N", "a", "m", "e", "U+FF1A", "A", "c", "m", "e">>

\* NoColonHere
X_NoColonHere ==
    <<"N", "o", "C", "o", "l", "o", "n", "H", "e", "r", "e">>

KvLines ==
    SeqsUpTo(KvAlphabet, MaxKvLen)
        \cup {X_CertNameAcme, X_CertNameAcmeFw, X_NoColonHere}

\* no document is under check, no function under call, no batch under way
NoDocument == env = None /\ data = None /\ result = None

NoBatch ==
    /\ certificates = <<>>
    /\ world = <<>>
    /\ idx = 0
    /\ checked = <<>>
    /\ updated_certs = <<>>
    /\ readme_lines = <<>>
    /\ readme = NoReadme

InitKV ==
    /\ pc = "start"
    /\ arg \in KvLines
    /\ ret = None
    /\ NoDocument
    /\ NoBatch

\* ret = split_kv(arg)
SplitKv ==
    /\ pc = "start"
    /\ ret' = split_kv(arg)
    /\ pc' = "done"
    /\ UNCHANGED <<env, data, result, arg, certificates, world, idx, checked,
                   updated_certs, readme_lines, readme>>

NextKV == SplitKv

SpecKV == InitKV /\ [][NextKV]_vars

\* s without its leading and trailing white space
Trimmed(s) ==
    LET solid == { i \in 1..Len(s) : s[i] \notin Whitespace } IN
    IF solid = {} THEN <<>> ELSE SubSeq(s, Min(solid), Max(solid))

\* the positions of the separators of s
Separators(s) == { i \in 1..Len(s) : s[i] \in {":", "U+FF1A"} }

\* C9: split_kv splits at the first ASCII or full-width colon and nowhere
\* else: the key is the trimmed text before it, the value the trimmed text
\* after it with every later colon kept; without a separator the key is the
\* trimmed line and the value is empty.
C9_SplitsAtFirstColon ==
    pc = "done" =>
        IF Separators(arg) = {}
        THEN ret = <<Trimmed(arg), <<>>>>
        ELSE LET i == Min(Separators(arg)) IN
             /\ ret[1] = Trimmed(SubSeq(arg, 1, i - 1))
             /\ ret[2] = Trimmed(SubSeq(arg, i + 1, Len(arg)))
             /\ Separators(ret[1]) = {}
             /\ Cardinality(Separators(ret[2]))
                    = Cardinality(Separators(arg)) - 1

\* C9 witness: a line split at a full-width colon, with a later colon kept
\* in the value
C9_Witness ==
    /\ pc = "done"
    /\ Separators(arg) # {}
    /\ arg[Min(Separators(arg))] = "U+FF1A"
    /\ ret[1] # <<>>
    /\ Separators(ret[2]) # {}

----------------------------------------------------------------------------
(* normalise_status on its own (specification SpecStatus)                  *)

\* most fragments a raw status is made of
MaxFragments == 3

\* Expired
F_Expired ==
    <<"E", "x", "p", "i", "r", "e", "d">>

\* Good
F_Good ==
    <<"G", "o", "o", "d">>

\* Match
F_Match ==
    <<"M", "a", "t", "c", "h">>

\* re
F_re ==
    <<"r", "e">>

\* vok
F_vok ==
    <<"v", "o", "k">>

\* !
F_excl ==
    <<"!">>

\* (U+1F7E2)
F_green ==
    <<"U+1F7E2">>

\* (U+1F534)
F_red ==
    <<"U+1F534">>

\* x 
F_x ==
    <<"x", " ">>

\* Provisions All Devices
F_Provisions ==
    <<"P", "r", "o", "v", "i", "s", "i", "o", "n", "s", " ", "A", "l", "l",
      " ", "D", "e", "v", "i", "c", "e", "s">>

StatusFragments ==
    {W_revok, F_Expired, F_Good, W_valid, W_active, F_Match, F_Provisions,
     F_re, F_vok, F_excl, F_green, F_red, F_x}

RECURSIVE Flatten(_)
\* the concatenation of a sequence of strings
Flatten(ss) == IF ss = <<>> THEN <<>> ELSE Head(ss) \o Flatten(Tail(ss))

RawStatuses == { Flatten(ss) : ss \in SeqsUpTo(StatusFragments, MaxFragments) }

InitStatus ==
    /\ pc = "start"
    /\ arg \in RawStatuses
    /\ ret = None
    /\ NoDocument
    /\ NoBatch

\* ret = normalise_status(arg)
NormaliseStatus ==
    /\ pc = "start"
    /\ ret' = normalise_status(arg)
    /\ pc' = "done"
    /\ UNCHANGED <<env, data, result, arg, certificates, world, idx, checked,
                   updated_certs, readme_lines, readme>>

NextStatus == NormaliseStatus

SpecStatus == InitStatus /\ [][NextStatus]_vars

\* the code points the normaliser keeps: letters, digits, underscore, white
\* space and - . / ( ) : ,
IsPlain(c) ==
    \/ c \in Range(UpperCase) \/ c \in Range(LowerCase) \/ c \in Range(Digits)
    \/ c \in {"_", " ", "\t", "-", ".", "/", "(", ")", ":", ","}

\* the raw status without decorative symbols, lower-cased
Undecorated(s) == lower(SelectSeq(s, IsPlain))

\* t occurs in s
Occurs(t, s) ==
    \E i \in 0..(Len(s) - Len(t)) :
        \A j \in 1..Len(t) : s[i + j] = t[j]

----------------------------------------------------------------------------
(* convert_to_dd_mm_yy on its own (specification SpecDate)                 *)

\* most suffixes appended to a date
MaxSuffixes == 1

\* 8
T_8 ==
    <<"8">>

\* 02
T_02 ==
    <<"0", "2">>

\* 13
T_13 ==
    <<"1", "3">>

\* 30
T_30 ==
    <<"3", "0">>

\* 23
T_23 ==
    <<"2", "3">>

\* 2023
T_2023 ==
    <<"2", "0", "2", "3">>

\*  06:07
T_0607 ==
    <<" ", "0", "6", ":", "0", "7">>

\*  6:07:15
T_60715 ==
    <<" ", "6", ":", "0", "7", ":", "1", "5">>

\*  25:00
T_2500 ==
    <<" ", "2", "5", ":", "0", "0">>

\*  GMT+08:00
U_GmtOffset ==
    <<" ", "G", "M", "T", "+", "0", "8", ":", "0", "0">>

\*  (UTC)
U_Utc ==
    <<" ", "(", "U", "T", "C", ")">>

\*  GMT
U_Gmt ==
    <<" ", "G", "M", "T">>

\*  x
U_x ==
    <<" ", "x">>

\* Aug 25 01:31:00 2025 GMT
N_AugGmt ==
    <<"A", "u", "g", " ", "2", "5", " ", "0", "1", ":", "3", "1", ":", "0",
      "0", " ", "2", "0", "2", "5", " ", "G", "M", "T">>

\* 02 Aug 2023 06:07
N_DayMonth ==
    <<"0", "2", " ", "A", "u", "g", " ", "2", "0", "2", "3", " ", "0", "6",
      ":", "0", "7">>

\* Aug 02, 2023 06:07
N_MonthDay ==
    <<"A", "u", "g", " ", "0", "2", ",", " ", "2", "0", "2", "3", " ", "0",
      "6", ":", "0", "7">>

\* 2 Aug 2023 06:07:10
N_DayMonthSec ==
    <<"2", " ", "A", "u", "g", " ", "2", "0", "2", "3", " ", "0", "6", ":",
      "0", "7", ":", "1", "0">>

\* 2023-02-08 19:07:10
N_Iso ==
    <<"2", "0", "2", "3", "-", "0", "2", "-", "0", "8", " ", "1", "9", ":",
      "0", "7", ":", "1", "0">>

\* soon
N_soon ==
    <<"s", "o", "o", "n">>

\*  
N_space ==
    <<" ">>

\* 
N_empty ==
    <<>>

DateSuffixes == {U_GmtOffset, U_Utc, U_Gmt, U_x}

\* a b c as a date with separator sep, then a time
NumericDates ==
    { a \o sep \o b \o sep \o c \o t :
        a \in {T_8, T_13, T_2023}, b \in {T_02, T_13, T_30},
        c \in {T_23, T_2023, T_8}, sep \in {<<"/">>, <<"-">>},
        t \in {T_0607, T_60715, T_2500} }

OtherDates ==
    {N_AugGmt, N_DayMonth, N_MonthDay, N_DayMonthSec, N_Iso, N_soon, N_space,
     N_empty, S_Unknown}

DateStrings ==
    { d \o Flatten(ss) :
        d \in NumericDates \cup OtherDates,
        ss \in SeqsUpTo(DateSuffixes, MaxSuffixes) }

InitDate ==
    /\ pc = "start"
    /\ arg \in DateStrings
    /\ ret = None
    /\ NoDocument
    /\ NoBatch

\* ret = convert_to_dd_mm_yy(arg), or the exception it raises
ConvertDate ==
    /\ pc = "start"
    /\ ret' = convert_to_dd_mm_yy(arg)
    /\ pc' = "done"
    /\ UNCHANGED <<env, data, result, arg, certificates, world, idx, checked,
                   updated_certs, readme_lines, readme>>

NextDate == ConvertDate

SpecDate == InitDate /\ [][NextDate]_vars

\* no format of date_formats and no pattern of date_patterns matches the
\* cleaned text of s
MatchesNothing(s) ==
    LET ds == cleaned_date(s) IN
    /\ \A k \in DOMAIN date_formats :
           fmt_match(date_formats[k], 1, ds, 1,
               [year |-> 1900, month |-> 1, day |-> 1,
                hour |-> 0, minute |-> 0, second |-> 0]) = {}
    /\ \A k \in DOMAIN date_patterns : re_search(date_patterns[k], ds) = None

\* C7 as claimed: the conversion never raises and returns every string,
\* empty or not, that matches no format and no pattern unchanged.
C7_UnmatchedUnchanged ==
    pc = "done" =>
        /\ ret.kind = "return"
        /\ MatchesNothing(arg) => ret.value = arg

\* C7 as amended: the conversion never raises; it returns every non-empty
\* string that matches no format and no pattern unchanged, and "Unknown" for
\* the empty string.
C7_UnmatchedUnchangedUnlessEmpty ==
    pc = "done" =>
        /\ ret.kind = "return"
        /\ MatchesNothing(arg) =>
               ret.value = IF arg = <<>> THEN S_Unknown ELSE arg

\* C7 witness: a string that matches nothing once its time zone is
\* stripped, returned with the time zone still in it
C7_Witness ==
    /\ pc = "done"
    /\ arg # <<>>
    /\ MatchesNothing(arg)
    /\ cleaned_date(arg) # arg
    /\ ret = Return(arg)

----------------------------------------------------------------------------
(* parse_readme_table, update_readme_table, update_recommended_cert.       *)
(* README.md is held as its lines: readme_content.split('\n') on reading   *)
(* and '\n'.join(updated_lines) on writing.                                *)

\* | Company | Type | Status |
S_TableHeader ==
    <<"|", " ", "C", "o", "m", "p", "a", "n", "y", " ", "|", " ", "T", "y",
      "p", "e", " ", "|", " ", "S", "t", "a", "t", "u", "s", " ", "|">>

\* |---
S_PipeDashes ==
    <<"|", "-", "-", "-">>

\* (U+2705) Signed
S_SignedCell ==
    <<"U+2705", " ", "S", "i", "g", "n", "e", "d">>

\* (U+274C) Revoked
S_RevokedCell ==
    <<"U+274C", " ", "R", "e", "v", "o", "k", "e", "d">>

\* (U+26A0)(U+FE0F) Expired
S_ExpiredCell ==
    <<"U+26A0", "U+FE0F", " ", "E", "x", "p", "i", "r", "e", "d">>

\* Recommend Certificate
S_Recommend ==
    <<"R", "e", "c", "o", "m", "m", "e", "n", "d", " ", "C", "e", "r", "t",
      "i", "f", "i", "c", "a", "t", "e">>

\* China Telecommunications Corporation V2
S_China ==
    <<"C", "h", "i", "n", "a", " ", "T", "e", "l", "e", "c", "o", "m", "m",
      "u", "n", "i", "c", "a", "t", "i", "o", "n", "s", " ", "C", "o", "r",
      "p", "o", "r", "a", "t", "i", "o", "n", " ", "V", "2">>

\* **China Telecommunications Corporation V2 - (U+2705) Signed**
S_ChinaSigned ==
    <<"*", "*", "C", "h", "i", "n", "a", " ", "T", "e", "l", "e", "c", "o",
      "m", "m", "u", "n", "i", "c", "a", "t", "i", "o", "n", "s", " ", "C",
      "o", "r", "p", "o", "r", "a", "t", "i", "o", "n", " ", "V", "2", " ",
      "-", " ", "U+2705", " ", "S", "i", "g", "n", "e", "d", "*", "*">>

\* **China Telecommunications Corporation V2 - (U+274C) Revoked**
S_ChinaRevoked ==
    <<"*", "*", "C", "h", "i", "n", "a", " ", "T", "e", "l", "e", "c", "o",
      "m", "m", "u", "n", "i", "c", "a", "t", "i", "o", "n", "s", " ", "C",
      "o", "r", "p", "o", "r", "a", "t", "i", "o", "n", " ", "V", "2", " ",
      "-", " ", "U+274C", " ", "R", "e", "v", "o", "k", "e", "d", "*", "*">>

\* **China Telecommunications Corporation V2 - (U+26A0)(U+FE0F) 
S_ChinaOther ==
    <<"*", "*", "C", "h", "i", "n", "a", " ", "T", "e", "l", "e", "c", "o",
      "m", "m", "u", "n", "i", "c", "a", "t", "i", "o", "n", "s", " ", "C",
      "o", "r", "p", "o", "r", "a", "t", "i", "o", "n", " ", "V", "2", " ",
      "-", " ", "U+26A0", "U+FE0F", " ">>

\* **
S_StarStar ==
    <<"*", "*">>

RECURSIVE split_on(_, _)
\* s.split(c)
split_on(s, c) ==
    LET i == first_in(s, {c}) IN
    IF i = NoIndex THEN <<s>>
    ELSE <<SubSeq(s, 1, i - 1)>> \o split_on(SubSeq(s, i + 1, Len(s)), c)

RECURSIVE join_with(_, _)
\* c.join(parts)
join_with(parts, c) ==
    IF parts = <<>> THEN <<>>
    ELSE IF Len(parts) = 1 THEN parts[1]
    ELSE parts[1] \o <<c>> \o join_with(Tail(parts), c)

\* the position of the table header line, or NoIndex (Python's -1)
table_start_of(lines) ==
    IF \E i \in 1..Len(lines) : startswith(lines[i], S_TableHeader)
    THEN CHOOSE i \in 1..Len(lines) :
             /\ startswith(lines[i], S_TableHeader)
             /\ \A j \in 1..(i - 1) : ~startswith(lines[j], S_TableHeader)
    ELSE NoIndex

\* the negation of the loop's break condition
is_row_line(line) ==
    /\ startswith(strip(line), <<"|">>)
    /\ ~startswith(strip(line), S_PipeDashes)

\* [cell.strip() for cell in line.split('|')[1:-1]]
cells_of(line) ==
    LET parts == split_on(strip(line), "|") IN
    [i \in 1..(Len(parts) - 2) |-> strip(parts[i + 1])]

RECURSIVE table_rows(_, _)
\* the loop over the rows from line i on: the cert_info dicts appended
table_rows(lines, i) ==
    IF i > Len(lines) \/ ~is_row_line(lines[i]) THEN <<>>
    ELSE LET cells == cells_of(lines[i]) IN
         (IF Len(cells) >= 5
          THEN << [company |-> cells[1], type |-> cells[2],
                   status |-> cells[3], valid_from |-> cells[4],
                   valid_to |-> cells[5],
                   download |-> IF Len(cells) > 5 THEN cells[6] ELSE <<>>,
                   line_index |-> i] >>
          ELSE <<>>)
             \o table_rows(lines, i + 1)

\* returns (certificates, lines)
parse_readme_table(lines) ==
    LET table_start == table_start_of(lines) IN
    IF table_start = NoIndex
    THEN [certificates |-> <<>>, lines |-> lines]
    ELSE [certificates |-> table_rows(lines, table_start + 2),
          lines |-> lines]

\* f" {v} "
padded(v) == <<" ">> \o v \o <<" ">>

\* the body of update_readme_table's loop: the row of cert rewritten
updated_row(cert, line) ==
    LET row_parts == split_on(line, "|")
        s == lower(Get(cert, "status", <<>>))
        new_status ==
            IF s = W_valid THEN S_SignedCell
            ELSE IF s = W_revoked THEN S_RevokedCell
            ELSE IF s = W_expired THEN S_ExpiredCell
            ELSE strip(row_parts[4])
        valid_from ==
            IF Get(cert, "valid_from", S_Unknown) = S_Unknown
            THEN strip(row_parts[5]) ELSE cert.valid_from
        valid_to ==
            IF Get(cert, "valid_to", S_Unknown) = S_Unknown
            THEN strip(row_parts[6]) ELSE cert.valid_to
        download == Get(cert, "download", <<>>)
    IN  join_with(
            [i \in 1..Len(row_parts) |->
                IF i = 4 THEN padded(new_status)
                ELSE IF i = 5 THEN padded(valid_from)
                ELSE IF i = 6 THEN padded(valid_to)
                ELSE IF i = 7 /\ download # <<>> THEN padded(download)
                ELSE row_parts[i]],
            "|")

RECURSIVE update_readme_table(_, _)
update_readme_table(certs, lines) ==
    IF certs = <<>> THEN lines
    ELSE LET cert == Head(certs) IN
         update_readme_table(Tail(certs),
             [lines EXCEPT ![cert.line_index] =
                  updated_row(cert, lines[cert.line_index])])

\* the line written under the Recommend Certificate heading for cert
recommended_line(cert) ==
    LET status == lower(Get(cert, "status", <<>>)) IN
    IF status = W_valid THEN S_ChinaSigned
    ELSE IF status = W_revoked THEN S_ChinaRevoked
    ELSE S_ChinaOther \o Get(cert, "status", S_Unknown) \o S_StarStar

RECURSIVE recommended_from(_, _, _)
\* the loop of update_recommended_cert from line i on
recommended_from(lines, certs, i) ==
    IF i > Len(lines) THEN lines
    ELSE IF /\ contains(lines[i], S_Recommend)
            /\ i + 1 <= Len(lines)
            /\ contains(strip(lines[i + 1]), S_China)
    THEN LET hits == { j \in 1..Len(certs) :
                         contains(Get(certs[j], "company", <<>>), S_China) }
         IN  IF hits = {} THEN recommended_from(lines, certs, i + 1)
             ELSE recommended_from(
                      [lines EXCEPT ![i + 1] =
                           recommended_line(
                               certs[CHOOSE j \in hits :
                                         \A x \in hits : j <= x])],
                      certs, i + 1)
    ELSE recommended_from(lines, certs, i + 1)

update_recommended_cert(lines, certs) == recommended_from(lines, certs, 1)

----------------------------------------------------------------------------
(* main: the batch over the rows of README.md's table.                     *)

\* most rows in the table
MaxRows == 2

\* | Company | Type | Status | Valid From | Valid To | Download |
H_Header ==
    <<"|", " ", "C", "o", "m", "p", "a", "n", "y", " ", "|", " ", "T", "y",
      "p", "e", " ", "|", " ", "S", "t", "a", "t", "u", "s", " ", "|", " ",
      "V", "a", "l", "i", "d", " ", "F", "r", "o", "m", " ", "|", " ", "V",
      "a", "l", "i", "d", " ", "T", "o", " ", "|", " ", "D", "o", "w", "n",
      "l", "o", "a", "d", " ", "|">>

\* |---|---|---|---|---|---|
H_Separator ==
    <<"|", "-", "-", "-", "|", "-", "-", "-", "|", "-", "-", "-", "|", "-",
      "-", "-", "|", "-", "-", "-", "|", "-", "-", "-", "|">>

\* ## Recommend Certificate
H_Recommend ==
    <<"#", "#", " ", "R", "e", "c", "o", "m", "m", "e", "n", "d", " ", "C",
      "e", "r", "t", "i", "f", "i", "c", "a", "t", "e">>

\* **China Telecommunications Corporation V2 - x**
H_ChinaLine ==
    <<"*", "*", "C", "h", "i", "n", "a", " ", "T", "e", "l", "e", "c", "o",
      "m", "m", "u", "n", "i", "c", "a", "t", "i", "o", "n", "s", " ", "C",
      "o", "r", "p", "o", "r", "a", "t", "i", "o", "n", " ", "V", "2", " ",
      "-", " ", "x", "*", "*">>

\* # Certificates
H_Title ==
    <<"#", " ", "C", "e", "r", "t", "i", "f", "i", "c", "a", "t", "e", "s">>

\* | A | T | (U+2705) Signed | 1 | 2 | D |
R_A ==
    <<"|", " ", "A", " ", "|", " ", "T", " ", "|", " ", "U+2705", " ", "S",
      "i", "g", "n", "e", "d", " ", "|", " ", "1", " ", "|", " ", "2", " ",
      "|", " ", "D", " ", "|">>

\* | A | T | (U+274C) Revoked | 1 | 2 |
R_A5 ==
    <<"|", " ", "A", " ", "|", " ", "T", " ", "|", " ", "U+274C", " ", "R",
      "e", "v", "o", "k", "e", "d", " ", "|", " ", "1", " ", "|", " ", "2",
      " ", "|">>

\* | China Telecommunications Corporation V2 | T | Unknown | 1 | 2 | D |
R_China ==
    <<"|", " ", "C", "h", "i", "n", "a", " ", "T", "e", "l", "e", "c", "o",
      "m", "m", "u", "n", "i", "c", "a", "t", "i", "o", "n", "s", " ", "C",
      "o", "r", "p", "o", "r", "a", "t", "i", "o", "n", " ", "V", "2", " ",
      "|", " ", "T", " ", "|", " ", "U", "n", "k", "n", "o", "w", "n", " ",
      "|", " ", "1", " ", "|", " ", "2", " ", "|", " ", "D", " ", "|">>

\* | A | T | x |
R_Short ==
    <<"|", " ", "A", " ", "|", " ", "T", " ", "|", " ", "x", " ", "|">>

\* | A | T | Revoked | 1 | 2 | D |
R_Plain ==
    <<"|", " ", "A", " ", "|", " ", "T", " ", "|", " ", "R", "e", "v", "o",
      "k", "e", "d", " ", "|", " ", "1", " ", "|", " ", "2", " ", "|", " ",
      "D", " ", "|">>

\* the rows a table is made of; R_Short has too few cells to be a row, and
\* R_Plain has a status cell written by hand, without its mark
RowLines == {R_A, R_A5, R_China, R_Short, R_Plain}

\* the company cells of RowLines
Companies == {<<"A">>, S_China}

\* README.md: absent, without a table, or a table of rows, with or without
\* the Recommend Certificate section before it
Readmes ==
    {NoReadme, [exists |-> TRUE, lines |-> <<H_Title>>]}
        \cup { [exists |-> TRUE,
                lines |-> pre \o <<H_Header, H_Separator>> \o rows] :
                 pre \in {<<>>, <<H_Recommend, H_ChinaLine>>},
                 rows \in SeqsUpTo(RowLines, MaxRows) }

\* what the check of one company's directory meets
Outcomes ==
    { [p12_files |-> f[1], mp_files |-> f[2], token |-> f[3],
       submit |-> f[4], response |-> f[5]] :
      f \in { <<FALSE, TRUE, "ok", "ok", [has_alert |-> FALSE, lines |-> <<>>]>>,
              <<TRUE, FALSE, "ok", "ok", [has_alert |-> FALSE, lines |-> <<>>]>>,
              <<TRUE, TRUE, "raise", "ok",
                [has_alert |-> FALSE, lines |-> <<>>]>>,
              <<TRUE, TRUE, "ok", "raise",
                [has_alert |-> FALSE, lines |-> <<>>]>>,
              <<TRUE, TRUE, "ok", "ok", [has_alert |-> FALSE, lines |-> <<>>]>>,
              <<TRUE, TRUE, "ok", "ok",
                [has_alert |-> TRUE,
                 lines |-> <<L_CertName, E_Effective, L_StGood>>]>>,
              <<TRUE, TRUE, "ok", "ok",
                [has_alert |-> TRUE,
                 lines |-> <<L_CertName, L_StRevoked>>]>> } }

InitMain ==
    /\ pc = "start"
    /\ readme \in Readmes
    /\ world \in [Companies -> Outcomes]
    /\ certificates = <<>>
    /\ readme_lines = <<>>
    /\ idx = 0
    /\ checked = <<>>
    /\ updated_certs = <<>>
    /\ arg = None
    /\ ret = None
    /\ NoDocument

\* main up to the loop: README.md is read and its table parsed
MainStart ==
    /\ pc = "start"
    /\ IF ~readme.exists
       THEN /\ pc' = "done"
            /\ UNCHANGED <<certificates, readme_lines>>
       ELSE LET p == parse_readme_table(readme.lines) IN
            /\ certificates' = p.certificates
            /\ readme_lines' = p.lines
            /\ pc' = IF p.certificates = <<>> THEN "done" ELSE "loop"
    /\ UNCHANGED <<env, data, result, arg, ret, world, idx, checked,
                   updated_certs, readme>>

\* cert_info after the loop body took the result's fields
with_result(cert_info, r) ==
    Put(Put(Put(Put(cert_info, "status", r.status),
                "valid_from", r.effective),
            "valid_to", r.expiration),
        "raw_status", Get(r, "raw_status", <<>>))

\* one iteration of the loop over certificates; r is what the call of
\* get_certificate_status ends with
MainCheck ==
    /\ pc = "loop"
    /\ idx < Len(certificates)
    /\ \E r \in { get_certificate_status(
                      certificates[idx + 1].company,
                      world[certificates[idx + 1].company]) } :
           /\ env' = world[certificates[idx + 1].company]
           /\ checked' = Append(checked, certificates[idx + 1].company)
           /\ IF r.kind = "raise"
              THEN /\ pc' = "aborted"
                   /\ UNCHANGED <<result, certificates, updated_certs, idx>>
              ELSE \E info \in { IF r.value # None
                                 THEN with_result(certificates[idx + 1],
                                                  r.value)
                                 ELSE certificates[idx + 1] } :
                       /\ result' = r.value
                       /\ certificates' =
                              [certificates EXCEPT ![idx + 1] = info]
                       /\ updated_certs' = Append(updated_certs, info)
                       /\ idx' = idx + 1
                       /\ pc' = IF idx + 1 = Len(certificates)
                                THEN "update" ELSE "loop"
    /\ UNCHANGED <<data, arg, ret, world, readme_lines, readme>>

\* main after the loop: the table and the recommendation are rewritten and
\* README.md is written
MainWrite ==
    /\ pc = "update"
    /\ \E updated_lines \in
               { update_readme_table(updated_certs, readme_lines) } :
           readme' =
               [exists |-> TRUE,
                lines |-> update_recommended_cert(updated_lines,
                                                  updated_certs)]
    /\ pc' = "written"
    /\ UNCHANGED <<env, data, result, arg, ret, certificates, world, idx,
                   checked, updated_certs, readme_lines>>

NextMain == MainStart \/ MainCheck \/ MainWrite

SpecMain == InitMain /\ [][NextMain]_vars

\* main has a step to take: ENABLED <<NextMain>>_vars
Running ==
    \/ pc = "start"
    \/ pc = "loop" /\ idx < Len(certificates)
    \/ pc = "update"

\* a step of main as pc and idx show it: every step of NextMain changes pc
\* or idx, so under SpecMain the steps of Advance are the steps of NextMain
Advance ==
    /\ Running
    /\ pc' \in {"done", "loop", "update", "written", "aborted"}
    /\ idx' \in {idx, idx + 1}

\* main is one sequential run: every request carries a timeout, so each
\* step returns or raises and the next one is taken.  With Advance for
\* NextMain this is WF_vars(NextMain).
FairSpecMain == SpecMain /\ WF_<<pc, idx>>(Advance)

\* the rows of the table as they stood when the run began
RowsAtStart == parse_readme_table(readme_lines).certificates

\* the check of company fails: files missing, or an exception in the token
\* fetch or in the upload
CheckFails(company) ==
    \/ ~world[company].p12_files
    \/ ~world[company].mp_files
    \/ world[company].token = "raise"
    \/ world[company].submit = "raise"

\* the loop has handled the first idx rows, each once and in table order
BatchInOrder ==
    /\ idx <= Len(RowsAtStart)
    /\ Len(checked) = idx
    /\ Len(updated_certs) = idx
    /\ \A i \in 1..idx :
           /\ checked[i] = RowsAtStart[i].company
           /\ updated_certs[i].company = RowsAtStart[i].company
           /\ updated_certs[i].line_index = RowsAtStart[i].line_index

\* C4: a failure for one document never aborts the batch: no exception
\* leaves the loop, the rows are checked once each in table order with one
\* entry of updated_certs per row in the same order, and a run that entered
\* the loop reaches the write of README.md with every row handled.
C4_BatchNeverAborts ==
    /\ [](/\ pc # "aborted"
          /\ pc \in {"loop", "update", "written"} => BatchInOrder
          /\ pc \in {"update", "written"} => idx = Len(RowsAtStart))
    /\ (pc = "loop") ~> (pc = "written")

\* README.md was written after a batch in which the check of an earlier row
\* failed and a later row was checked with success
C4_Witness ==
    /\ pc = "written"
    /\ \E i, j \in 1..Len(updated_certs) :
           /\ i < j
           /\ CheckFails(checked[i])
           /\ ~CheckFails(checked[j])
           /\ "raw_status" \notin DOMAIN updated_certs[i]
           /\ updated_certs[j].status = S_Valid

----------------------------------------------------------------------------
(* Claims about the rewriting of the table (specification SpecMain)        *)

\* the text of cell n of a table line, without its surrounding spaces
CellText(line, n) == Trimmed(split_on(line, "|")[n + 1])

\* the line of row i before the run and in the README.md main wrote
OldLine(i) == readme_lines[RowsAtStart[i].line_index]

NewLine(i) == readme.lines[RowsAtStart[i].line_index]

\* the check of row i returned a result (not None)
HasResult(i) == "raw_status" \in DOMAIN updated_certs[i]

\* C11: a row whose check failed or whose result has status Unknown keeps
\* the text of its Status cell; a row whose new valid-from / valid-to value
\* is Unknown keeps the text of that cell; the Status cell changes only when
\* the new status is Valid, Revoked or Expired.
C11_UnknownKeepsCells ==
    pc = "written" =>
        \A i \in 1..Len(RowsAtStart) :
            /\ (~HasResult(i) \/ updated_certs[i].status = S_Unknown) =>
                   CellText(NewLine(i), 3) = CellText(OldLine(i), 3)
            /\ (HasResult(i) /\ updated_certs[i].valid_from = S_Unknown) =>
                   CellText(NewLine(i), 4) = CellText(OldLine(i), 4)
            /\ (HasResult(i) /\ updated_certs[i].valid_to = S_Unknown) =>
                   CellText(NewLine(i), 5) = CellText(OldLine(i), 5)
            /\ CellText(NewLine(i), 3) # CellText(OldLine(i), 3) =>
                   /\ HasResult(i)
                   /\ updated_certs[i].status \in
                          {S_Valid, S_Revoked, S_Expired}

====
